---------------------------- MODULE Spec2Model ----------------------------
(***************************************************************************)
(* A model of the music bot (src/src/bot/bot.py, src/src/scheduler/        *)
(* scheduler.py): the JSON documents on disk, the daily job that the       *)
(* background scheduler fires, and the command / callback handlers of the  *)
(* polling loop.                                                           *)
(*                                                                         *)
(* Python strings are sequences of one-character strings, so that str(),   *)
(* int() and strip() are computed and not assumed.  JSON values carry a    *)
(* tag, so that isinstance() is a test of the tag.                         *)
(***************************************************************************)
EXTENDS Integers, Sequences, FiniteSets, TLC

\* ------------------------------------------------------------------ bounds
\* chat identifiers are 1..MaxChats
MaxChats == 2
\* the catalog is drawn from the first MaxAlbums entries of AlbumPool
MaxAlbums == 5
\* number of times the scheduler fires the daily job, when it runs alone
MaxFires == 3
\* number of fires and of updates of the polling loop, when both run
SysFires == 2
SysUpdates == 2
\* the catalog of the system is the first SysAlbums entries of AlbumPool
SysAlbums == 3
\* number of updates when the registry commands run alone, and the sizes
\* of the registry documents they start from
RegUpdates == 3
\* the rating callbacks alone
RateUpdates == 3
MaxListLen == 2
MaxMapKeys == 2

Chats == 1..MaxChats

\* ----------------------------------------------------------------- strings
Digits == <<"0", "1", "2", "3", "4", "5", "6", "7", "8", "9">>

IsSpace(c) == c = " "

IsDigit(c) == \E i \in 1..10 : Digits[i] = c

DigitVal(c) == (CHOOSE i \in 1..10 : Digits[i] = c) - 1

\* str(n) for a natural number n
RECURSIVE Str(_)
Str(n) ==
    IF n < 10 THEN <<Digits[n + 1]>>
    ELSE Str(n \div 10) \o <<Digits[(n % 10) + 1]>>

RECURSIVE LStrip(_)
LStrip(s) == IF s # <<>> /\ IsSpace(Head(s)) THEN LStrip(Tail(s)) ELSE s

RECURSIVE RStrip(_)
RStrip(s) ==
    IF s # <<>> /\ IsSpace(s[Len(s)]) THEN RStrip(SubSeq(s, 1, Len(s) - 1)) ELSE s

\* str.strip()
Strip(s) == RStrip(LStrip(s))

RECURSIVE DigitsVal(_)
DigitsVal(s) ==
    IF s = <<>> THEN 0
    ELSE 10 * DigitsVal(SubSeq(s, 1, Len(s) - 1)) + DigitVal(s[Len(s)])

\* the value of no successful parse
Fail == -1

\* int(s) for a string s: surrounding whitespace is dropped, then every
\* character must be a decimal digit; Fail stands for ValueError
ParseInt(s) ==
    LET t == Strip(s)
    IN  IF t # <<>> /\ \A i \in 1..Len(t) : IsDigit(t[i]) THEN DigitsVal(t) ELSE Fail

\* the characters of the model, in code-point order
CharOrder ==
    <<" ", "0", "1", "2", "3", "4", "5", "6", "7", "8", "9", "_", "a", "b", "k", "x">>

\* lexicographic order of strings, the order sorted() gives a list of str
RECURSIVE StrLess(_, _)
StrLess(a, b) ==
    IF b = <<>> THEN FALSE
    ELSE IF a = <<>> THEN TRUE
    ELSE LET ia == CHOOSE i \in 1..Len(CharOrder) : CharOrder[i] = Head(a)
             ib == CHOOSE i \in 1..Len(CharOrder) : CharOrder[i] = Head(b)
         IN  IF ia # ib THEN ia < ib ELSE StrLess(Tail(a), Tail(b))

RECURSIVE SortedList(_)
\* sorted(list(S)) for a set S of strings
SortedList(S) ==
    IF S = {} THEN <<>>
    ELSE LET m == CHOOSE x \in S : \A y \in S \ {x} : StrLess(x, y)
         IN  <<m>> \o SortedList(S \ {m})

\* the set of the elements of a sequence
Range(q) == {q[i] : i \in 1..Len(q)}

\* ------------------------------------------------------------ JSON values
\* isinstance(x, list), isinstance(x, dict): a document carries its type
JList(items) == [t |-> "list", items |-> items]

JDict(map) == [t |-> "dict", map |-> map]

JInt(n) == [t |-> "int", n |-> n]

JStr(s) == [t |-> "str", s |-> s]

JNull == [t |-> "null"]

EmptyMap == [k \in {} |-> JNull]

\* str(x) of an entry of a JSON list
StrOf(x) == IF x.t = "int" THEN Str(x.n) ELSE IF x.t = "str" THEN x.s ELSE <<>>

\* d[k] = v of a Python dict d (a function on its keys)
DictSet(map, k, v) == [x \in DOMAIN map \cup {k} |-> IF x = k THEN v ELSE map[x]]

\* ------------------------------------------------------------- the files
ALBUMS_PATH == "albums.final.json"

USERS_PATH == "users.json"

SUBSCRIBERS_PATH == "subscribers.json"

\* a sent list kept in the file of the registry
SentPathShared == "subscribers.json"

SENT_PATH == "sent_albums.json"

\* the ratings kept in the file of the sent list
RatingsPathIsSent == "sent_albums.json"

RATINGS_PATH == "ratings.json"

Targets == {ALBUMS_PATH, USERS_PATH, SUBSCRIBERS_PATH, SENT_PATH, RATINGS_PATH}

\* a save that opens the target itself for writing
TmpPathInPlace(path) == path

\* path.with_suffix(path.suffix + ".tmp")
TmpPath(path) ==
    CASE path = USERS_PATH -> "users.json.tmp"
      [] path = SUBSCRIBERS_PATH -> "subscribers.json.tmp"
      [] path = SENT_PATH -> "sent_albums.json.tmp"
      [] path = RATINGS_PATH -> "ratings.json.tmp"
      [] OTHER -> "albums.final.json.tmp"

Paths == Targets \cup {TmpPath(p) : p \in Targets}

\* a path that names no file
NoFile == [t |-> "nofile"]

\* a file that holds the beginning of a document only: open(.., "w") has
\* truncated it and json.dump has not finished
Partial == [t |-> "partial"]

\* load_json: the default when the file is missing or json.load raises
load_json(files, path, default) ==
    IF files[path].t \in {"nofile", "partial"} THEN default ELSE files[path]

\* ------------------------------------------------------------ the catalog
\* an album of the catalog: id is <<>> (None) or <<n>>; key, artist and
\* album are strings, "" when the field is absent
Album(id, key, artist, album, year) ==
    [id |-> id, key |-> key, artist |-> artist, album |-> album, year |-> year]

AlbumPool ==
    << Album(<<1>>, <<>>, <<"a">>, <<"x">>, 1),
       Album(<<2>>, <<>>, <<"b">>, <<"x">>, 2),
       Album(<<>>, <<"k">>, <<"a">>, <<"b">>, 3),
       Album(<<>>, <<>>, <<"a">>, <<"b">>, 4),
       Album(<<>>, <<>>, <<" ", "a">>, <<"b", " ">>, 5),
       Album(<<>>, <<"1">>, <<"k">>, <<"x">>, 6),
       Album(<<3>>, <<>>, <<"k">>, <<"k">>, 7),
       Album(<<>>, <<>>, <<"a", "|", "b">>, <<"x">>, 8) >>

RECURSIVE PoolEntries(_, _)
\* the entries of AlbumPool at the positions S, in the order of the pool
PoolEntries(S, n) ==
    IF n = 0 THEN <<>>
    ELSE PoolEntries(S, n - 1) \o (IF n \in S THEN <<AlbumPool[n]>> ELSE <<>>)

Catalogs == {PoolEntries(S, MaxAlbums) : S \in SUBSET (1..MaxAlbums)}

album_ident(album) ==
    IF album.id # <<>> THEN Str(album.id[1])
    ELSE IF album.key # <<>> THEN album.key
    ELSE Strip(album.artist) \o <<"_", "_">> \o Strip(album.album)

load_albums(files) ==
    LET albums == load_json(files, ALBUMS_PATH, JList(<<>>))
    IN  IF albums.t = "list" THEN albums.items ELSE <<>>

\* load_sent: set(str(x) for x in data)
load_sent(files) ==
    LET data == load_json(files, SENT_PATH, JList(<<>>))
    IN  IF data.t = "list" THEN {StrOf(data.items[i]) : i \in 1..Len(data.items)}
        ELSE {}

\* the document save_sent writes: sorted(list(sent))
SentDoc(sent) ==
    LET sorted == SortedList(sent)
    IN  JList([i \in 1..Len(sorted) |-> JStr(sorted[i])])

\* a filter that does not look at the sent set
RemainingIgnoresSent(albums, sent) == 1..Len(albums)

\* remaining = [a for a in albums if album_ident(a) not in sent], as the
\* positions of the catalog that remain
Remaining(albums, sent) ==
    {i \in 1..Len(albums) : album_ident(albums[i]) \notin sent}

\* a sample with replacement
Sample2Repeats(remaining) == {<<i, j>> : i \in remaining, j \in remaining}

\* random.sample(remaining, 2): two different positions, in either order
Sample2(remaining) ==
    {<<i, j>> : i \in remaining, j \in remaining} \ {<<i, i>> : i \in remaining}

\* ---------------------------------------------------------- subscribers
load_subscribers_raw(files) == load_json(files, SUBSCRIBERS_PATH, JList(<<>>))

\* int(x) of an entry of the list form: Fail stands for the exception
IntOf(x) ==
    CASE x.t = "int" -> x.n
      [] x.t = "str" -> ParseInt(x.s)
      [] OTHER -> Fail

\* v.get("active", True) of an entry of the map form, True when the entry
\* is no dict
EntryActive(v) ==
    IF v.t = "dict" /\ "active" \in DOMAIN v.map THEN v.map["active"] ELSE TRUE

load_subscribers_set(files) ==
    LET data == load_subscribers_raw(files)
    IN  CASE data.t = "list" ->
               {IntOf(data.items[i]) : i \in 1..Len(data.items)} \ {Fail}
          [] data.t = "dict" ->
               {ParseInt(k) : k \in {x \in DOMAIN data.map : EntryActive(data.map[x])}}
                   \ {Fail}
          [] OTHER -> {}

\* chat_id in data, for the list form: == of an int and a list entry
InList(items, chat_id) ==
    \E i \in 1..Len(items) : items[i].t = "int" /\ items[i].n = chat_id

\* [x for x in data if x != chat_id]
RECURSIVE Without(_, _)
Without(items, chat_id) ==
    IF items = <<>> THEN <<>>
    ELSE (IF Head(items).t = "int" /\ Head(items).n = chat_id
          THEN <<>> ELSE <<Head(items)>>) \o Without(Tail(items), chat_id)

\* the result of a registry operation: whether save_subscribers is called,
\* and with which document
Saved(doc) == [save |-> TRUE, doc |-> doc]

NotSaved == [save |-> FALSE, doc |-> JNull]

\* an entry whose flag is flipped, and not set
SubscribedEntryToggles(data, key) ==
    LET old == IF key \in DOMAIN data.map THEN data.map[key] ELSE JDict(EmptyMap)
        entry == IF old.t = "dict" THEN old.map ELSE EmptyMap
    IN  JDict(DictSet(entry, "active",
                      ~(key \in DOMAIN data.map /\ EntryActive(old))))

\* the entry subscribe writes in the map form
SubscribedEntry(data, key) ==
    LET old == IF key \in DOMAIN data.map THEN data.map[key] ELSE JDict(EmptyMap)
        entry == IF old.t = "dict" THEN old.map ELSE EmptyMap
        act == DictSet(entry, "active", TRUE)
    IN  JDict(IF "subscribed_at" \in DOMAIN act THEN act
              ELSE DictSet(act, "subscribed_at", JNull))

\* a subscribe that turns a registry in list form into the map form
subscribeMigrates(data, chat_id) ==
    CASE data.t = "list" ->
           Saved(JDict([k \in {StrOf(data.items[i]) : i \in 1..Len(data.items)}
                           \cup {Str(chat_id)} |->
                         JDict(DictSet(EmptyMap, "active", TRUE))]))
      [] data.t = "dict" ->
           Saved(JDict(DictSet(data.map, Str(chat_id),
                               SubscribedEntry(data, Str(chat_id)))))
      [] OTHER -> Saved(JList(<<JInt(chat_id)>>))

subscribe(data, chat_id) ==
    CASE data.t = "list" ->
           IF ~InList(data.items, chat_id)
           THEN Saved(JList(Append(data.items, JInt(chat_id))))
           ELSE NotSaved
      [] data.t = "dict" ->
           Saved(JDict(DictSet(data.map, Str(chat_id),
                               SubscribedEntry(data, Str(chat_id)))))
      [] OTHER -> Saved(JList(<<JInt(chat_id)>>))

\* the entry unsubscribe writes in the map form
UnsubscribedEntry(old) ==
    IF old.t = "dict" THEN JDict(DictSet(old.map, "active", FALSE))
    ELSE JDict(DictSet(EmptyMap, "active", FALSE))

\* an unsubscribe that deletes the record of the chat in the map form
unsubscribeDeletes(data, chat_id) ==
    CASE data.t = "list" ->
           IF InList(data.items, chat_id)
           THEN Saved(JList(Without(data.items, chat_id)))
           ELSE NotSaved
      [] data.t = "dict" ->
           IF Str(chat_id) \in DOMAIN data.map
           THEN Saved(JDict([k \in DOMAIN data.map \ {Str(chat_id)} |-> data.map[k]]))
           ELSE NotSaved
      [] OTHER -> NotSaved

unsubscribe(data, chat_id) ==
    CASE data.t = "list" ->
           IF InList(data.items, chat_id)
           THEN Saved(JList(Without(data.items, chat_id)))
           ELSE NotSaved
      [] data.t = "dict" ->
           IF Str(chat_id) \in DOMAIN data.map
           THEN Saved(JDict(DictSet(data.map, Str(chat_id),
                                    UnsubscribedEntry(data.map[Str(chat_id)]))))
           ELSE NotSaved
      [] OTHER -> NotSaved

\* ----------------------------------------------------------------- users
\* load_users: the profiles by str(chat id); a list is read as empty profiles
load_users(files) ==
    LET data == load_json(files, USERS_PATH, JDict(EmptyMap))
    IN  CASE data.t = "dict" -> data.map
          [] data.t = "list" ->
               [k \in {StrOf(data.items[i]) : i \in 1..Len(data.items)} |-> EmptyMap]
          [] OTHER -> EmptyMap

\* an upsert that saves the profile of the chat and drops the others
upsert_userAlone(files, chat, date) ==
    JDict(DictSet(EmptyMap, Str(chat),
                  DictSet(DictSet(EmptyMap, "id", chat), "last_seen", date)))

\* the users document upsert_user saves for a message of chat at date; of
\* the profile the id and last_seen are kept, the three names of from_user
\* are written like them and read nowhere
upsert_user(files, chat, date) ==
    LET users == load_users(files)
        uid == Str(chat)
        profile == IF uid \in DOMAIN users THEN users[uid] ELSE EmptyMap
        updated == DictSet(DictSet(profile, "id", chat), "last_seen", date)
    IN  JDict(DictSet(users, uid, updated))

\* --------------------------------------------------------------- ratings
\* the keys of the response table of set_rating
RatingValues == {<<"b", "a", "d">>, <<"o", "k">>, <<"s", "u", "p", "e", "r">>}

load_ratings(files) ==
    LET data == load_json(files, RATINGS_PATH, JDict(EmptyMap))
    IN  IF data.t = "dict" THEN data.map ELSE EmptyMap

\* the ratings document set_rating saves
RatedDoc(files, chat, ident, rating) ==
    LET ratings == load_ratings(files)
        user == Str(chat)
        mine == IF user \in DOMAIN ratings THEN ratings[user] ELSE EmptyMap
    IN  JDict(DictSet(ratings, user, DictSet(mine, ident, rating)))

\* ---------------------------------------------------------------- state
VARIABLES
    fs,        \* the files: path -> NoFile, Partial or a JSON document
    pc,        \* where the daily job and the polling loop are
    sv,        \* per activity, the save_json_atomic call in progress
    ret,       \* per activity, where it continues after the save
    fires,     \* how many times the scheduler has fired the job
    updates,   \* how many updates the polling loop has taken
    d_subs,    \* daily job: subs, the active set read when it fired
    d_todo,    \* daily job: the subscribers the loop has not reached
    d_cur,     \* daily job: the subscriber being served, 0 when none
    d_k,       \* daily job: the album of the pair to send next
    d_pair,    \* daily job: pair of the last pick, as positions of the
               \* catalog; <<>> for None
    d_raised,  \* daily job: the chat whose send raised out of the job since
               \* the last pick, 0 when none
    c_msg,     \* polling loop: the update being handled
    outbox,    \* what each activity has sent since its last fire / update
    pickLog    \* the identifiers each call of pick_two_unique_unsent returned

vars ==
    <<fs, pc, sv, ret, fires, updates, d_subs, d_todo, d_cur, d_k, d_pair,
      d_raised, c_msg, outbox, pickLog>>

dvars == <<d_subs, d_todo, d_cur, d_k, d_pair, d_raised>>

Procs == {"daily", "cmd"}

NoSave == [path |-> "", doc |-> JNull, old |-> JNull]

NoMsg ==
    [kind |-> "none", chat |-> 0, date |-> 0, ident |-> <<>>, rating |-> <<>>,
     data |-> <<>>]

\* a call of the chat platform an activity has made: album is the position
\* in the catalog of the album it carries, 0 when it carries none; ok is
\* whether the call returned (TRUE) or raised (FALSE)
Msg(by, to, kind, album, ok) ==
    [by |-> by, to |-> to, kind |-> kind, album |-> album, ok |-> ok]

\* --------------------------------------------------- save_json_atomic
\* open(tmp, "w"): the temporary file exists and is empty
WriteOpen(files, path) == [files EXCEPT ![TmpPath(path)] = Partial]

\* json.dump(data, f) and the close of the file
WriteDump(files, path, doc) == [files EXCEPT ![TmpPath(path)] = doc]

\* os.replace(tmp, path)
Replace(files, path) ==
    IF TmpPath(path) = path THEN files
    ELSE [files EXCEPT ![path] = files[TmpPath(path)], ![TmpPath(path)] = NoFile]

\* an activity calls save_json_atomic(path, doc) and continues at next; old
\* is the content of path that the activity loaded and computed doc from
CallSave(p, path, doc, next) ==
    /\ sv' = [sv EXCEPT ![p] = [path |-> path, doc |-> doc, old |-> fs[path]]]
    /\ pc' = [pc EXCEPT ![p] = "save_open"]
    /\ ret' = [ret EXCEPT ![p] = next]

SaveOpen(p) ==
    /\ pc[p] = "save_open"
    /\ fs' = WriteOpen(fs, sv[p].path)
    /\ pc' = [pc EXCEPT ![p] = "save_dump"]
    /\ UNCHANGED <<sv, ret, fires, updates, dvars, c_msg, outbox, pickLog>>

SaveDump(p) ==
    /\ pc[p] = "save_dump"
    /\ fs' = WriteDump(fs, sv[p].path, sv[p].doc)
    /\ pc' = [pc EXCEPT ![p] = "save_replace"]
    /\ UNCHANGED <<sv, ret, fires, updates, dvars, c_msg, outbox, pickLog>>

SaveReplace(p) ==
    /\ pc[p] = "save_replace"
    /\ fs' = Replace(fs, sv[p].path)
    /\ pc' = [pc EXCEPT ![p] = ret[p]]
    /\ sv' = [sv EXCEPT ![p] = NoSave]
    /\ UNCHANGED <<ret, fires, updates, dvars, c_msg, outbox, pickLog>>

\* ----------------------------------------------------- send_album_to_user
\* what one call can do: the photo is sent; or send_photo raises and the
\* caption is sent as text; or both raise, and the exception leaves the call
SendOutcomes == {"photo", "text", "raise"}

\* a send that adds the text message to a photo that went through
send_album_to_userBoth(by, to, album, outcome) ==
    CASE outcome = "photo" ->
           {Msg(by, to, "photo", album, TRUE), Msg(by, to, "text", album, TRUE)}
      [] outcome = "text" ->
           {Msg(by, to, "photo", album, FALSE), Msg(by, to, "text", album, TRUE)}
      [] OTHER ->
           {Msg(by, to, "photo", album, FALSE), Msg(by, to, "text", album, FALSE)}

\* the platform calls of send_album_to_user(to, album) with that outcome
send_album_to_user(by, to, album, outcome) ==
    CASE outcome = "photo" -> {Msg(by, to, "photo", album, TRUE)}
      [] outcome = "text" ->
           {Msg(by, to, "photo", album, FALSE), Msg(by, to, "text", album, TRUE)}
      [] OTHER ->
           {Msg(by, to, "photo", album, FALSE), Msg(by, to, "text", album, FALSE)}

\* ------------------------------------------------------------- daily job
\* a job that goes on without subscribers
NoSubscribersNever(subs) == FALSE

\* if not subs: return
NoSubscribers(subs) == subs = {}

\* the scheduler runs send_daily_albums; it begins with load_subscribers_set
Fire(limit) ==
    /\ pc["daily"] = "idle"
    /\ fires < limit
    /\ fires' = fires + 1
    /\ LET subs == load_subscribers_set(fs)
       IN  /\ d_subs' = subs
           /\ d_todo' = subs
           /\ pc' = [pc EXCEPT !["daily"] =
                       IF NoSubscribers(subs) THEN "idle" ELSE "pick"]
    /\ d_cur' = 0
    /\ d_k' = 1
    /\ outbox' = {m \in outbox : m.by # "daily"}
    /\ UNCHANGED <<fs, sv, ret, updates, d_pair, d_raised, c_msg, pickLog>>

\* the identifiers of the chosen positions of the catalog
ChosenIdents(albums, chosen) == {album_ident(albums[chosen[i]]) : i \in 1..Len(chosen)}

\* a pick that saves the chosen identifiers in place of the sent set
NewSentOnlyChosen(sent, albums, chosen) == ChosenIdents(albums, chosen)

\* a pick that saves the sent set as it loaded it
NewSentForgetsChosen(sent, albums, chosen) == sent

\* a pick that marks every album of the catalog
NewSentMarksCatalog(sent, albums, chosen) ==
    sent \cup {album_ident(albums[i]) : i \in 1..Len(albums)}

\* for a in chosen: sent.add(album_ident(a))
NewSent(sent, albums, chosen) == sent \cup ChosenIdents(albums, chosen)

\* a test that needs more than two albums
ExhaustedOffByOne(albums, sent) == Cardinality(Remaining(albums, sent)) <= 2

\* len(remaining) < 2
Exhausted(albums, sent) == Cardinality(Remaining(albums, sent)) < 2

\* pick_two_unique_unsent returns None
PickNone ==
    /\ pc["daily"] = "pick"
    /\ Exhausted(load_albums(fs), load_sent(fs))
    /\ pickLog' = Append(pickLog, {})
    /\ d_pair' = <<>>
    /\ d_raised' = 0
    /\ pc' = [pc EXCEPT !["daily"] = "notify"]
    /\ UNCHANGED <<fs, sv, ret, fires, updates, d_subs, d_todo, d_cur, d_k, c_msg,
                   outbox>>

\* pick_two_unique_unsent chooses a pair and calls save_sent
PickPair ==
    /\ pc["daily"] = "pick"
    /\ LET albums == load_albums(fs)
           sent == load_sent(fs)
       IN  /\ ~Exhausted(albums, sent)
           /\ \E chosen \in Sample2(Remaining(albums, sent)) :
                /\ d_pair' = chosen
                /\ pickLog' = Append(pickLog, ChosenIdents(albums, chosen))
                /\ CallSave("daily", SENT_PATH, SentDoc(NewSent(sent, albums, chosen)),
                            "deliver")
    /\ d_raised' = 0
    /\ UNCHANGED <<fs, fires, updates, d_subs, d_todo, d_cur, d_k, c_msg, outbox>>

\* one call send_album_to_user(u, album) of the loops over subs and pair
Deliver ==
    /\ pc["daily"] = "deliver"
    /\ \E u \in (IF d_k = 1 THEN d_todo ELSE {d_cur}), o \in SendOutcomes :
         /\ outbox' = outbox \cup send_album_to_user("daily", u, d_pair[d_k], o)
         /\ d_todo' = d_todo \ {u}
         /\ IF o = "raise"
            THEN /\ d_raised' = u
                 /\ d_cur' = u
                 /\ d_k' = d_k
                 /\ pc' = [pc EXCEPT !["daily"] = "idle"]
            ELSE /\ d_raised' = d_raised
                 /\ d_cur' = IF d_k = 1 THEN u ELSE 0
                 /\ d_k' = IF d_k = 1 THEN 2 ELSE 1
                 /\ pc' = [pc EXCEPT !["daily"] =
                             IF d_k = 2 /\ d_todo = {} THEN "idle" ELSE "deliver"]
    /\ UNCHANGED <<fs, sv, ret, fires, updates, d_subs, d_pair, c_msg, pickLog>>

\* one bot.send_message(u, "albums exhausted") of the loop over subs
Notify ==
    /\ pc["daily"] = "notify"
    /\ \E u \in d_todo, ok \in BOOLEAN :
         /\ outbox' = outbox \cup {Msg("daily", u, "exhausted", 0, ok)}
         /\ d_todo' = d_todo \ {u}
         /\ d_raised' = IF ok THEN d_raised ELSE u
         /\ pc' = [pc EXCEPT !["daily"] =
                     IF ok /\ d_todo # {u} THEN "notify" ELSE "idle"]
    /\ UNCHANGED <<fs, sv, ret, fires, updates, d_subs, d_cur, d_k, d_pair, c_msg,
                   pickLog>>

DailyNext(limit) ==
    \/ Fire(limit)
    \/ PickNone
    \/ PickPair
    \/ SaveOpen("daily")
    \/ SaveDump("daily")
    \/ SaveReplace("daily")
    \/ Deliver
    \/ Notify

\* ---------------------------------------------------------- polling loop
Commands == {"start", "subscribe", "unsubscribe", "random", "list"}

\* the rating values a setrate payload can carry: those of the keyboard of
\* callback_rate, and one that is none of them
PayloadRatings == RatingValues \cup {<<"m", "e", "h">>}

\* the identifiers a callback payload can carry: those of the keyboards
\* build_keyboard has made
PayloadIdents(files) ==
    {album_ident(load_albums(files)[i]) : i \in 1..Len(load_albums(files))}

\* a command handler begins: upsert_user(message) loads the profiles and
\* calls save_json_atomic
Receive(kind, chat, limit) ==
    /\ pc["cmd"] = "idle"
    /\ updates < limit
    /\ updates' = updates + 1
    /\ c_msg' = [kind |-> kind, chat |-> chat, date |-> updates + 1,
                 ident |-> <<>>, rating |-> <<>>, data |-> <<>>]
    /\ outbox' = {m \in outbox : m.by # "cmd"}
    /\ CallSave("cmd", USERS_PATH, upsert_user(fs, chat, updates + 1), "body")
    /\ UNCHANGED <<fs, fires, dvars, pickLog>>

\* the registry operation of a handler: its save when it makes one, and
\* then the reply
Registry(r) ==
    /\ IF r.save
       THEN CallSave("cmd", SUBSCRIBERS_PATH, r.doc, "reply")
       ELSE /\ pc' = [pc EXCEPT !["cmd"] = "reply"]
            /\ UNCHANGED <<sv, ret>>
    /\ UNCHANGED <<fs, fires, updates, dvars, c_msg, outbox, pickLog>>

\* start_cmd, subscribe_cmd: subscribe(message.chat.id)
SubscribeBody ==
    /\ pc["cmd"] = "body"
    /\ c_msg.kind \in {"start", "subscribe"}
    /\ Registry(subscribe(load_subscribers_raw(fs), c_msg.chat))

\* unsubscribe_cmd: unsubscribe(message.chat.id)
UnsubscribeBody ==
    /\ pc["cmd"] = "body"
    /\ c_msg.kind = "unsubscribe"
    /\ Registry(unsubscribe(load_subscribers_raw(fs), c_msg.chat))

\* the bot.send_message that ends start_cmd, subscribe_cmd, unsubscribe_cmd
Reply ==
    /\ pc["cmd"] = "reply"
    /\ \E ok \in BOOLEAN :
         outbox' = outbox \cup {Msg("cmd", c_msg.chat, "reply", 0, ok)}
    /\ pc' = [pc EXCEPT !["cmd"] = "idle"]
    /\ UNCHANGED <<fs, sv, ret, fires, updates, dvars, c_msg, pickLog>>

\* random_cmd after upsert_user: too few albums
RandomFew ==
    /\ pc["cmd"] = "body"
    /\ c_msg.kind = "random"
    /\ Len(load_albums(fs)) < 2
    /\ \E ok \in BOOLEAN :
         outbox' = outbox \cup {Msg("cmd", c_msg.chat, "toofew", 0, ok)}
    /\ pc' = [pc EXCEPT !["cmd"] = "idle"]
    /\ UNCHANGED <<fs, sv, ret, fires, updates, dvars, c_msg, pickLog>>

\* random_cmd after upsert_user: random.sample(albums, 2), each sent with
\* send_album_to_user; the second is not sent when the first raises
RandomBody ==
    /\ pc["cmd"] = "body"
    /\ c_msg.kind = "random"
    /\ Len(load_albums(fs)) >= 2
    /\ \E pair \in Sample2(1..Len(load_albums(fs))), o1 \in SendOutcomes,
          o2 \in SendOutcomes :
         outbox' = outbox
                     \cup send_album_to_user("cmd", c_msg.chat, pair[1], o1)
                     \cup (IF o1 = "raise" THEN {}
                           ELSE send_album_to_user("cmd", c_msg.chat, pair[2], o2))
    /\ pc' = [pc EXCEPT !["cmd"] = "idle"]
    /\ UNCHANGED <<fs, sv, ret, fires, updates, dvars, c_msg, pickLog>>

\* the lookup {"bad": .., "ok": .., "super": ..}[r] of list_cmd raises
\* KeyError for some sent identifier the user has rated
ListRaises(files, chat) ==
    LET ratings == load_ratings(files)
        user == Str(chat)
    IN  /\ user \in DOMAIN ratings
        /\ \E ident \in load_sent(files) \cap DOMAIN ratings[user] :
              ratings[user][ident] \notin RatingValues

\* list_cmd after upsert_user
ListBody ==
    /\ pc["cmd"] = "body"
    /\ c_msg.kind = "list"
    /\ IF ListRaises(fs, c_msg.chat)
       THEN outbox' = outbox
       ELSE \E ok \in BOOLEAN :
              outbox' = outbox \cup {Msg("cmd", c_msg.chat, "list", 0, ok)}
    /\ pc' = [pc EXCEPT !["cmd"] = "idle"]
    /\ UNCHANGED <<fs, sv, ret, fires, updates, dvars, c_msg, pickLog>>

\* s.split("|", maxsplit): the fields of s between the first maxsplit bars
RECURSIVE Split(_, _)
Split(s, maxsplit) ==
    IF maxsplit = 0 \/ \A i \in 1..Len(s) : s[i] # "|" THEN <<s>>
    ELSE LET bar == CHOOSE i \in 1..Len(s) :
                       s[i] = "|" /\ \A j \in 1..(i - 1) : s[j] # "|"
         IN  <<SubSeq(s, 1, bar - 1)>>
               \o Split(SubSeq(s, bar + 1, Len(s)), maxsplit - 1)

\* callback_data of the button build_keyboard adds: f"rate|{ident}"
RatePayload(ident) == <<"r", "a", "t", "e", "|">> \o ident

\* callback_data of a button of the rating keyboard: f"setrate|{ident}|bad"
SetratePayload(ident, rating) ==
    <<"s", "e", "t", "r", "a", "t", "e", "|">> \o ident \o <<"|">> \o rating

\* callback_rate for the tap of the button build_keyboard made for ident:
\* the rating keyboard of call.data.split("|", 1)[1] replaces the keyboard
\* of the message
CallbackRate(chat, ident, limit) ==
    /\ pc["cmd"] = "idle"
    /\ updates < limit
    /\ updates' = updates + 1
    /\ c_msg' = [kind |-> "rate", chat |-> chat, date |-> updates + 1,
                 ident |-> ident, rating |-> <<>>,
                 data |-> RatePayload(ident)]
    /\ \E ok \in BOOLEAN :
         outbox' = {m \in outbox : m.by # "cmd"}
                     \cup {Msg("cmd", chat, "keyboard", 0, ok)}
    /\ UNCHANGED <<fs, pc, sv, ret, fires, dvars, pickLog>>

\* set_rating up to save_ratings(ratings), for the tap of the button that
\* callback_rate made for ident and rating: _, ident, rating =
\* call.data.split("|", 2) raises ValueError unless there are three fields
SetRating(chat, ident, rating, limit) ==
    /\ pc["cmd"] = "idle"
    /\ updates < limit
    /\ updates' = updates + 1
    /\ c_msg' = [kind |-> "setrate", chat |-> chat, date |-> updates + 1,
                 ident |-> ident, rating |-> rating,
                 data |-> SetratePayload(ident, rating)]
    /\ outbox' = {m \in outbox : m.by # "cmd"}
    /\ LET parts == Split(SetratePayload(ident, rating), 2)
       IN  IF Len(parts) = 3
           THEN CallSave("cmd", RATINGS_PATH,
                         RatedDoc(fs, chat, parts[2], parts[3]), "answer")
           ELSE UNCHANGED <<pc, sv, ret>>
    /\ UNCHANGED <<fs, fires, dvars, pickLog>>

\* set_rating after the save: the lookup of the response raises KeyError
\* for a rating that is none of the three, else answer_callback_query
Answer ==
    /\ pc["cmd"] = "answer"
    /\ IF Split(c_msg.data, 2)[3] \notin RatingValues
       THEN outbox' = outbox
       ELSE \E ok \in BOOLEAN :
              outbox' = outbox \cup {Msg("cmd", c_msg.chat, "answer", 0, ok)}
    /\ pc' = [pc EXCEPT !["cmd"] = "idle"]
    /\ UNCHANGED <<fs, sv, ret, fires, updates, dvars, c_msg, pickLog>>

\* the steps of save_json_atomic in the polling loop
CmdSave ==
    \/ SaveOpen("cmd")
    \/ SaveDump("cmd")
    \/ SaveReplace("cmd")

\* the steps of a handler that has begun
HandlerSteps ==
    \/ SubscribeBody
    \/ UnsubscribeBody
    \/ Reply
    \/ RandomFew
    \/ RandomBody
    \/ ListBody
    \/ Answer
    \/ CmdSave

\* bot.infinity_polling(): an update arrives and its handler begins, or the
\* handler that has begun goes on
CmdNext(limit) ==
    \/ \E kind \in Commands, chat \in Chats : Receive(kind, chat, limit)
    \/ \E chat \in Chats, ident \in PayloadIdents(fs) : CallbackRate(chat, ident, limit)
    \/ \E chat \in Chats, ident \in PayloadIdents(fs), rating \in PayloadRatings :
         SetRating(chat, ident, rating, limit)
    \/ HandlerSteps

\* ------------------------------------------------------------ the system
\* the files when the process starts: the catalog, a subscriber registry and
\* a sent list, and no other document yet
Files(catalog, registry, sent) ==
    [p \in Paths |->
       IF p = ALBUMS_PATH THEN JList(catalog)
       ELSE IF p = SUBSCRIBERS_PATH THEN registry
       ELSE IF p = SENT_PATH THEN sent
       ELSE NoFile]

InitWith(catalogs, registries, sents) ==
    /\ \E catalog \in catalogs, registry \in registries, sent \in sents :
         fs = Files(catalog, registry, sent)
    /\ pc = [p \in Procs |-> "idle"]
    /\ sv = [p \in Procs |-> NoSave]
    /\ ret = [p \in Procs |-> "idle"]
    /\ fires = 0
    /\ updates = 0
    /\ d_subs = {}
    /\ d_todo = {}
    /\ d_cur = 0
    /\ d_k = 1
    /\ d_pair = <<>>
    /\ d_raised = 0
    /\ c_msg = NoMsg
    /\ outbox = {}
    /\ pickLog = <<>>

\* the entry {"active": a} of the map form
ActiveEntry(a) == JDict(DictSet(EmptyMap, "active", a))

\* the system starts with a registry in list form, in map form or absent,
\* and a sent list that is absent or holds the third album of the catalog
SysRegistries == {NoFile, JList(<<JInt(1)>>)}

\* its catalog has one album, or the first SysAlbums of the pool
SysCatalogs == {PoolEntries(1..n, n) : n \in {1, SysAlbums}}

SysSents == {NoFile, SentDoc({album_ident(AlbumPool[SysAlbums])})}

Init == InitWith(SysCatalogs, SysRegistries, SysSents)

Next == DailyNext(SysFires) \/ CmdNext(SysUpdates)

Spec == Init /\ [][Next]_vars

\* the scheduler thread fires the job and runs it on, and a handler that
\* has begun runs on; whether an update arrives is up to the users
FairSpec == Spec /\ WF_vars(DailyNext(SysFires)) /\ WF_vars(HandlerSteps)

\* the daily job alone, over every catalog, with both chats subscribed
DailyInit ==
    InitWith(Catalogs,
             {JList(<<JInt(1), JInt(2)>>),
              [t |-> "dict", map |-> [k \in {Str(c) : c \in Chats} |-> ActiveEntry(TRUE)]]},
             {NoFile})

DailySpec == DailyInit /\ [][DailyNext(MaxFires)]_vars

\* the registry commands alone, over registry documents of both shapes
ListEntries == {JInt(c) : c \in Chats} \cup {JStr(Str(1)), JStr(<<"x">>)}

MapKeys == {Str(c) : c \in Chats} \cup {<<"0", "1">>, <<"x">>}

MapEntries == {JDict(EmptyMap), ActiveEntry(TRUE), ActiveEntry(FALSE), JList(<<>>)}

RegistryContents ==
    {NoFile, JNull}
      \cup {JList(q) : q \in UNION {[1..n -> ListEntries] : n \in 0..MaxListLen}}
      \cup {JDict(m) : m \in UNION {[K -> MapEntries] :
                          K \in {K \in SUBSET MapKeys : Cardinality(K) <= MaxMapKeys}}}

RegistryInit ==
    InitWith({PoolEntries(1..SysAlbums, SysAlbums)}, RegistryContents, {NoFile})

RegistryNext ==
    \/ \E kind \in {"start", "subscribe", "unsubscribe"}, chat \in Chats :
         Receive(kind, chat, RegUpdates)
    \/ SubscribeBody
    \/ UnsubscribeBody
    \/ Reply
    \/ CmdSave

RegistrySpec == RegistryInit /\ [][RegistryNext]_vars

\* the rating callbacks and /list alone, on a catalog of three albums that
\* have all been sent: one with an id, one with a key, and one whose
\* identifier is made of an artist that is written with a bar
RateCatalog == PoolEntries({1, 3, 8}, 8)

RatingInit ==
    InitWith({RateCatalog}, {NoFile},
             {SentDoc({album_ident(RateCatalog[i]) : i \in 1..Len(RateCatalog)})})

RatingNext ==
    \/ \E chat \in Chats, ident \in PayloadIdents(fs) :
         CallbackRate(chat, ident, RateUpdates)
    \/ \E chat \in Chats, ident \in PayloadIdents(fs), rating \in PayloadRatings :
         SetRating(chat, ident, rating, RateUpdates)
    \/ Answer
    \/ \E chat \in Chats : Receive("list", chat, RateUpdates)
    \/ ListBody
    \/ CmdSave

RatingSpec == RatingInit /\ [][RatingNext]_vars

\* ================================================================ claims
Last(q) == q[Len(q)]

SaveStages == {"save_open", "save_dump", "save_replace"}

\* the identifiers of the catalog on disk
CatalogIdents == PayloadIdents(fs)

\* C1: a call of pick_two_unique_unsent never returns an identifier that is
\* in the sent set when it is called, nor one that an earlier call returned
C1_NoRepick ==
    [][pickLog' # pickLog =>
         Last(pickLog') \cap (load_sent(fs) \cup UNION Range(pickLog)) = {}]_vars

\* two picks have succeeded on one catalog
C1_Witness ==
    /\ Len(pickLog) >= 2
    /\ pickLog[1] # {}
    /\ pickLog[2] # {}

\* C2: a pick returns None exactly when fewer than 2 albums of the catalog
\* are unsent, it then leaves the files as they are, and every call after
\* it returns None too; on a catalog of 4 albums with 4 identifiers and an
\* empty sent list the first two picks succeed and the third returns None
C2_ExhaustedStays ==
    /\ [](\A i, j \in 1..Len(pickLog) : i < j /\ pickLog[i] = {} => pickLog[j] = {})
    /\ []((Len(load_albums(fs)) = 4 /\ Cardinality(CatalogIdents) = 4
             /\ Len(pickLog) = 3)
            => pickLog[1] # {} /\ pickLog[2] # {} /\ pickLog[3] = {})
    /\ [][pickLog' # pickLog =>
            /\ (Last(pickLog') = {}) <=>
                 (Cardinality(Remaining(load_albums(fs), load_sent(fs))) < 2)
            /\ Last(pickLog') = {} => fs' = fs]_vars

\* two picks have used up a catalog of 4 albums, and the third returned None
C2_Witness ==
    /\ Len(load_albums(fs)) = 4
    /\ Cardinality(CatalogIdents) = 4
    /\ Len(pickLog) = 3
    /\ pickLog[3] = {}

\* C3: no step of the daily job or of a handler removes an identifier from
\* the sent set on disk
C3_SentMonotonic == [][load_sent(fs) \subseteq load_sent(fs')]_vars

\* a pick has added its pair to a sent list that held an identifier, and the
\* polling loop has handled updates meanwhile
C3_Witness ==
    /\ Cardinality(load_sent(fs)) = 3
    /\ updates = SysUpdates
    /\ fires >= 1

\* the job has delivered album k of its pair to chat u
Delivered(u, k) ==
    \E m \in outbox :
       m.by = "daily" /\ m.to = u /\ m.album = d_pair[k] /\ m.ok
         /\ m.kind \in {"photo", "text"}

\* a send of the job to chat u has raised out of send_album_to_user
DeliveryFailed(u) ==
    \E m \in outbox : m.by = "daily" /\ m.to = u /\ m.kind = "text" /\ ~m.ok

\* C4: when a fire that picked a pair has ended, every chat that was active
\* when it began, and to which no send failed, has received both albums
C4_AllDelivered ==
    (pc["daily"] = "idle" /\ d_pair # <<>>) =>
       \A u \in d_subs : ~DeliveryFailed(u) => Delivered(u, 1) /\ Delivered(u, 2)

\* the identifiers of the pair of the last pick are in the sent set on disk
PairMarked == ChosenIdents(load_albums(fs), d_pair) \subseteq load_sent(fs)

\* C5: whenever the job is delivering or has attempted a delivery, both
\* identifiers of its pair are in the sent set on disk; and the pick that
\* follows a fire whose delivery failed returns none of that pair
C5_MarkedBeforeSend ==
    /\ []((pc["daily"] = "deliver"
             \/ \E m \in outbox : m.by = "daily" /\ m.kind \in {"photo", "text"})
            => PairMarked)
    /\ [][(pickLog' # pickLog /\ d_raised # 0 /\ d_pair # <<>>) =>
            Last(pickLog') \cap ChosenIdents(load_albums(fs), d_pair) = {}]_vars

\* a delivery of the last fire failed, and the next fire is about to pick
\* among albums that remain
C5_Witness ==
    /\ pc["daily"] = "pick"
    /\ d_raised # 0
    /\ d_pair # <<>>
    /\ ~Exhausted(load_albums(fs), load_sent(fs))

\* an activity is about to replace a document that is no longer the one it
\* loaded and computed its own from: the change made meanwhile is lost
LostUpdate ==
    \E q \in Procs : pc[q] \in SaveStages /\ fs[sv[q].path] # sv[q].old

C7_AtomicSave ==
    /\ [](\A p \in Targets : fs[p] # Partial)
    /\ [][\A p \in Targets :
            fs'[p] # fs[p] =>
               \E q \in Procs :
                  pc[q] = "save_replace" /\ sv[q].path = p /\ fs'[p] = sv[q].doc]_vars

\* the job has fired and read the registry while a handler has written a
\* part of the new registry to its temporary file
C7_Witness ==
    /\ pc["cmd"] = "save_dump"
    /\ sv["cmd"].path = SUBSCRIBERS_PATH
    /\ fs[TmpPath(SUBSCRIBERS_PATH)] = Partial
    /\ pc["daily"] = "pick"
    /\ d_subs = load_subscribers_set(fs)

\* the registry document, and the active set of a registry document
RegistryDoc == load_subscribers_raw(fs)

ActiveOf(doc) == load_subscribers_set([fs EXCEPT ![SUBSCRIBERS_PATH] = doc])

\* the registry after an operation on the document data with the result r
After(r, data) == IF r.save THEN r.doc ELSE data

\* C8: for the registry document of every reachable state and every chat,
\* subscribing twice leaves the active set that subscribing once leaves
C8_SubscribeIdempotent ==
    \A c \in Chats :
       LET once == After(subscribe(RegistryDoc, c), RegistryDoc)
           twice == After(subscribe(once, c), once)
       IN  ActiveOf(twice) = ActiveOf(once)

\* subscribe has run for a chat whose record in the map form it had written
\* before: the handler is at its reply, after the second save
C8_Witness ==
    /\ c_msg.kind = "subscribe"
    /\ pc["cmd"] = "reply"
    /\ updates >= 2
    /\ RegistryDoc.t = "dict"
    /\ c_msg.chat \in load_subscribers_set(fs)
    /\ "subscribed_at" \in DOMAIN RegistryDoc.map[Str(c_msg.chat)].map

\* C9: when unsubscribe(id) has returned, id is not in the active set
C9_Unsubscribed ==
    (c_msg.kind = "unsubscribe" /\ pc["cmd"] \in {"reply", "idle"})
       => c_msg.chat \notin load_subscribers_set(fs)

\* C10: no step removes a key of a registry in map form, and when
\* unsubscribe(id) has returned the record of id, if there is one, is a
\* record with active = false
C10_RecordsRetained ==
    /\ [][fs[SUBSCRIBERS_PATH].t = "dict" =>
            /\ fs'[SUBSCRIBERS_PATH].t = "dict"
            /\ DOMAIN fs[SUBSCRIBERS_PATH].map \subseteq DOMAIN fs'[SUBSCRIBERS_PATH].map]_vars
    /\ []((/\ c_msg.kind = "unsubscribe"
           /\ pc["cmd"] \in {"reply", "idle"}
           /\ RegistryDoc.t = "dict"
           /\ Str(c_msg.chat) \in DOMAIN RegistryDoc.map)
            => /\ RegistryDoc.map[Str(c_msg.chat)].t = "dict"
               /\ ~EntryActive(RegistryDoc.map[Str(c_msg.chat)]))

\* unsubscribe has returned for a chat that a registry in map form listed as
\* active: its record is there, inactive
C10_Witness ==
    /\ c_msg.kind = "unsubscribe"
    /\ pc["cmd"] = "reply"
    /\ sv["cmd"] = NoSave
    /\ ret["cmd"] = "reply"
    /\ RegistryDoc.t = "dict"
    /\ Str(c_msg.chat) \in DOMAIN RegistryDoc.map
    /\ ~EntryActive(RegistryDoc.map[Str(c_msg.chat)])

\* C11: subscribe and unsubscribe keep the shape of the registry: on a
\* document in list form each saves a list or nothing, on one in map form a
\* map or nothing, and no step of a sequence of the commands turns a
\* registry file in list form into another shape, nor one in map form
C11_ShapePreserved ==
    /\ [](RegistryDoc.t \in {"list", "dict"} =>
            \A c \in Chats :
               /\ After(subscribe(RegistryDoc, c), RegistryDoc).t = RegistryDoc.t
               /\ After(unsubscribe(RegistryDoc, c), RegistryDoc).t = RegistryDoc.t)
    /\ [][fs[SUBSCRIBERS_PATH].t \in {"list", "dict"} =>
            fs'[SUBSCRIBERS_PATH].t = fs[SUBSCRIBERS_PATH].t]_vars

\* a registry in list form has been saved by subscribe and then by
\* unsubscribe, and is a list
C11_Witness ==
    /\ c_msg.kind = "unsubscribe"
    /\ pc["cmd"] = "reply"
    /\ ret["cmd"] = "reply"
    /\ updates >= 2
    /\ RegistryDoc.t = "list"
    /\ Len(RegistryDoc.items) >= 1

\* the rating the ratings document holds for a chat and an identifier, <<>>
\* when it holds none
RatingOf(files, chat, ident) ==
    LET ratings == load_ratings(files)
    IN  IF Str(chat) \in DOMAIN ratings /\ ident \in DOMAIN ratings[Str(chat)]
        THEN ratings[Str(chat)][ident] ELSE <<>>

\* the identifiers the ratings document has a rating for
RatedIdents(files) ==
    UNION {DOMAIN load_ratings(files)[u] : u \in DOMAIN load_ratings(files)}

\* C12: when set_rating has saved for the tap of a button of the rating
\* keyboard, the rating the document holds for the chat and the identifier
\* of the button is the value of the button; and a step changes the rating
\* of no other chat and of no other identifier
C12_LastWriteWins ==
    /\ []((c_msg.kind = "setrate" /\ pc["cmd"] \in {"answer", "idle"})
            => RatingOf(fs, c_msg.chat, c_msg.ident) = c_msg.rating)
    /\ [][\A c \in Chats, i \in CatalogIdents \cup RatedIdents(fs) \cup RatedIdents(fs') :
            RatingOf(fs', c, i) # RatingOf(fs, c, i)
               => c_msg.kind = "setrate" /\ c = c_msg.chat /\ i = c_msg.ident]_vars

\* C13: in every reachable state every rating the ratings document holds is
\* one of bad, ok and super, also when a setrate payload with another value
\* has been handled
C13_RatingsInEnum ==
    \A u \in DOMAIN load_ratings(fs) :
       \A i \in DOMAIN load_ratings(fs)[u] : load_ratings(fs)[u][i] \in RatingValues

\* C14: a fire that finds no active subscriber does nothing: from the fire
\* on no pick is made, the sent set on disk stays as it is and the job sends
\* no message, and the job is idle again at once
C14_EmptyFireNoOp ==
    /\ [][d_subs' = {} =>
            /\ pickLog' = pickLog
            /\ load_sent(fs') = load_sent(fs)
            /\ ~\E m \in outbox' : m.by = "daily"]_vars
    /\ []((fires >= 1 /\ d_subs = {}) => pc["daily"] = "idle")

\* the job has fired on a registry file that lists no active chat, while
\* two albums of the catalog were unsent
C14_Witness ==
    /\ fires >= 1
    /\ d_subs = {}
    /\ pc["cmd"] = "idle"
    /\ fs[SUBSCRIBERS_PATH] # NoFile
    /\ load_subscribers_set(fs) = {}
    /\ ~Exhausted(load_albums(fs), load_sent(fs))

\* the job has called bot.send_message(u, "albums exhausted")
Notified(u) ==
    \E m \in outbox : m.by = "daily" /\ m.to = u /\ m.kind = "exhausted"

\* C15: when a fire whose pick returned None has ended, the notice has been
\* sent to every chat that was active when it began, and the job has
\* delivered no album
C15_AllNotified ==
    (pc["daily"] = "idle" /\ fires >= 1 /\ d_subs # {} /\ d_pair = <<>>) =>
       /\ \A u \in d_subs : Notified(u)
       /\ ~\E m \in outbox : m.by = "daily" /\ m.kind \in {"photo", "text"}

\* the profile of the chat of the update holds the date of the update
ProfileFresh ==
    /\ Str(c_msg.chat) \in DOMAIN load_users(fs)
    /\ "last_seen" \in DOMAIN load_users(fs)[Str(c_msg.chat)]
    /\ load_users(fs)[Str(c_msg.chat)]["last_seen"] = c_msg.date

\* no step removes a profile from the users document
ProfilesKept == [][DOMAIN load_users(fs) \subseteq DOMAIN load_users(fs')]_vars

\* C16, as stated: when the handler of any update, command or callback, has
\* ended, the profile of its chat has been upserted with the update; and no
\* step removes a profile
C16_UpsertedAlways ==
    /\ []((pc["cmd"] = "idle" /\ c_msg.kind # "none") => ProfileFresh)
    /\ ProfilesKept

\* C16, amended: the profile is upserted by every command, before the body
\* of its handler runs; the callbacks rate| and setrate| leave the users
\* document as it is; and no step removes a profile
C16_UpsertedOnCommands ==
    /\ []((c_msg.kind \in Commands /\ pc["cmd"] \in {"body", "reply", "idle"})
            => ProfileFresh)
    /\ [][c_msg'.kind \in {"rate", "setrate"} => fs'[USERS_PATH] = fs[USERS_PATH]]_vars
    /\ ProfilesKept

\* a command of a chat has stored its profile, and a later callback of the
\* chat has been handled and has left the profile with the older date
C16_Witness ==
    /\ c_msg.kind = "setrate"
    /\ pc["cmd"] = "idle"
    /\ Str(c_msg.chat) \in DOMAIN load_users(fs)
    /\ load_users(fs)[Str(c_msg.chat)]["last_seen"] < c_msg.date

\* the calls of one kind that one send_album_to_user has made
CallsOf(m, kind) ==
    {x \in outbox : x.by = m.by /\ x.to = m.to /\ x.album = m.album /\ x.kind = kind}

\* C17: a call of send_album_to_user makes one photo attempt; it sends the
\* text message with the album's caption and keyboard once when the photo
\* attempt failed and only then, whether or not the text message goes through
C17_PhotoThenText ==
    \A m \in outbox :
       m.kind \in {"photo", "text"} =>
          /\ Cardinality(CallsOf(m, "photo")) = 1
          /\ Cardinality(CallsOf(m, "text")) <= 1
          /\ (CallsOf(m, "text") # {}) <=> (\E x \in CallsOf(m, "photo") : ~x.ok)

\* in one /random a photo went through for one album, and for the other the
\* photo and the text message both failed
C17_Witness ==
    /\ \E m \in outbox : m.by = "cmd" /\ m.kind = "photo" /\ m.ok
    /\ \E m \in outbox : m.by = "cmd" /\ m.kind = "text" /\ ~m.ok

\* C18: the sent list on disk changes only by the rename that ends the
\* save_sent of a pick of the daily job: no step of a command or of a
\* callback changes it, and the albums /random delivers are not marked
C18_OnlyPickMarks ==
    [][fs'[SENT_PATH] # fs[SENT_PATH] =>
         /\ pc["daily"] = "save_replace"
         /\ sv["daily"].path = SENT_PATH
         /\ pc'["cmd"] = pc["cmd"]
         /\ c_msg' = c_msg]_vars

\* /random has delivered an album that is still unsent and that the daily
\* job can pick
C18_Witness ==
    /\ c_msg.kind = "random"
    /\ pc["cmd"] = "idle"
    /\ ~Exhausted(load_albums(fs), load_sent(fs))
    /\ \E m \in outbox :
          /\ m.by = "cmd"
          /\ m.kind \in {"photo", "text"}
          /\ m.ok
          /\ m.album \in Remaining(load_albums(fs), load_sent(fs))

\* C19: a fire makes at most one pick, whatever the number of subscribers:
\* a pick is made only by a job that has just fired, the sent set, empty at
\* the start, has at most two identifiers per fire, and every album the job
\* delivers is one of the pair of the pick of its fire
C19_OnePickPerFire ==
    /\ [](Len(pickLog) <= fires)
    /\ [](Cardinality(load_sent(fs)) <= 2 * fires)
    /\ [](\A m \in outbox :
            (m.by = "daily" /\ m.kind \in {"photo", "text"}) =>
               d_pair # <<>> /\ m.album \in Range(d_pair))
    /\ [][pickLog' # pickLog =>
            /\ pc["daily"] = "pick"
            /\ pc'["daily"] # "pick"
            /\ Len(pickLog') = Len(pickLog) + 1]_vars
    /\ [][Cardinality(load_sent(fs') \ load_sent(fs)) <= 2]_vars
    /\ [][(pc'["daily"] = "pick" /\ pc["daily"] # "pick") => fires' = fires + 1]_vars

\* the second fire has delivered both albums of its pick to both subscribers
C19_Witness ==
    /\ fires = 2
    /\ Len(pickLog) = 2
    /\ Cardinality(load_sent(fs)) = 4
    /\ Cardinality(d_subs) = 2
    /\ pc["daily"] = "idle"
    /\ \A u \in d_subs : Delivered(u, 1) /\ Delivered(u, 2)

\* C20, as stated: every successful pick returns two albums with different
\* identifiers, and so adds two identifiers to the sent set
C20_TwoIdentifiers ==
    \A i \in 1..Len(pickLog) : pickLog[i] # {} => Cardinality(pickLog[i]) = 2

\* C20, amended: a successful pick returns two different entries of the
\* catalog, both unsent; their identifiers are two when no two entries of
\* the catalog have the same identifier, and can be one and the same
\* otherwise; and its save adds to the sent set just the identifiers it
\* returned, two or one
C20_TwoEntries ==
    /\ [][(pickLog' # pickLog /\ Last(pickLog') # {}) =>
            /\ Len(d_pair') = 2
            /\ d_pair'[1] # d_pair'[2]
            /\ {d_pair'[1], d_pair'[2]} \subseteq Remaining(load_albums(fs), load_sent(fs))
            /\ Last(pickLog') = ChosenIdents(load_albums(fs), d_pair')
            /\ Cardinality(Last(pickLog')) \in {1, 2}
            /\ Cardinality(CatalogIdents) = Len(load_albums(fs))
                  => Cardinality(Last(pickLog')) = 2]_vars
    /\ [][fs'[SENT_PATH] # fs[SENT_PATH] =>
            load_sent(fs') \ load_sent(fs) = Last(pickLog)]_vars

\* a pick has returned two entries of the catalog that have one identifier,
\* and its save has added that one identifier to the sent set
C20_Witness ==
    /\ pc["daily"] = "deliver"
    /\ d_pair # <<>>
    /\ d_pair[1] # d_pair[2]
    /\ Cardinality(Last(pickLog)) = 1
    /\ Last(pickLog) \subseteq load_sent(fs)

============================================================================
